---- MODULE Spec2Model ----
(***************************************************************************)
(* Model of the metabolite classification pipeline of src/app.py:          *)
(* search_hmdb_id, query_hmdb, get_kegg_id, query_kegg and                 *)
(* classify_metabolites.                                                   *)
(*                                                                         *)
(* Python text is a sequence of one-character strings, so that lower(),    *)
(* split(), replace() and the substring tests are computed character by    *)
(* character.  Python values that can be None, a str, a dict or a list     *)
(* are records tagged by `t`.  A dict is a function whose DOMAIN is its    *)
(* key set.  An HTTP exchange is a record: either it raised               *)
(* ([raised |-> TRUE, msg]) or it answered with a status and a body.       *)
(***************************************************************************)
EXTENDS Integers, Sequences, FiniteSets, TLC

VARIABLES
    stub,         \* which answers the two servers can give in this run
    metabolites,  \* the input list of names
    pc,           \* where classify_metabolites is
    i,            \* 1-based position of the loop that pc names
    hmdb_data,    \* results of query_hmdb
    kegg_data,    \* results of query_kegg
    classified,   \* the defaultdict of classify_metabolites
    order,        \* the keys of classified, in insertion order
    table,        \* the DataFrame returned
    clock,        \* time slept so far, in half seconds
    net           \* the exchanges of the latest iteration of a query loop

vars == <<stub, metabolites, pc, i, hmdb_data, kegg_data, classified, order,
          table, clock, net>>

(***************************************************************************)
(* Bounds of the model.                                                    *)
(***************************************************************************)
MaxLen == 1

MaxPlainLen == 3

\* names of a run against the full stub, and of a run against the plain one
Names == {"glucose", "rutin"}

PlainNames == {"glucose", "rutin", "caffeine"}

(***************************************************************************)
(* Python values.                                                          *)
(***************************************************************************)
None == [t |-> "None"]

Str(s) == [t |-> "str", s |-> s]

Dict(d) == [t |-> "dict", d |-> d]

List(l) == [t |-> "list", l |-> l]

EmptyDict == << >>

\* d.get(k, default) on a Python dict d
Get(d, k, default) == IF k \in DOMAIN d THEN d[k] ELSE default

\* d.update(e): the keys of e overwrite those of d
Update(d, e) == e @@ d

\* bool(v) for v None or a str
Truthy(v) == v.t = "str" /\ v.s # <<>>

(***************************************************************************)
(* Python str operations, on sequences of characters.                      *)
(***************************************************************************)
UpperCase == <<"A","B","C","D","E","F","G","H","I","J","K","L","M",
               "N","O","P","Q","R","S","T","U","V","W","X","Y","Z">>

LowerCase == <<"a","b","c","d","e","f","g","h","i","j","k","l","m",
               "n","o","p","q","r","s","t","u","v","w","x","y","z">>

LowerChar(c) ==
    IF \E k \in 1..Len(UpperCase) : UpperCase[k] = c
    THEN LowerCase[CHOOSE k \in 1..Len(UpperCase) : UpperCase[k] = c]
    ELSE c

\* s.lower()
Lower(s) == [k \in 1..Len(s) |-> LowerChar(s[k])]

\* s[p:p+len(x)] == x
MatchAt(s, x, p) ==
    /\ p + Len(x) - 1 <= Len(s)
    /\ \A k \in 1..Len(x) : s[p + k - 1] = x[k]

\* x in s
Contains(s, x) == \E p \in 1..(Len(s) + 1) : MatchAt(s, x, p)

\* any(x in s for x in keywords)
AnyIn(keywords, s) == \E k \in 1..Len(keywords) : Contains(s, keywords[k])

\* position of the first character of s at or after p that is in chars, or 0
RECURSIVE FindChar(_, _, _)
FindChar(s, chars, p) ==
    IF p > Len(s) THEN 0
    ELSE IF s[p] \in chars THEN p
    ELSE FindChar(s, chars, p + 1)

\* s.split(sep) for a one-character sep
RECURSIVE Split(_, _)
Split(s, sep) ==
    LET p == FindChar(s, {sep}, 1)
    IN  IF p = 0 THEN <<s>>
        ELSE <<SubSeq(s, 1, p - 1)>> \o Split(SubSeq(s, p + 1, Len(s)), sep)

\* s.replace(old, "")
RECURSIVE Remove(_, _)
Remove(s, old) ==
    IF s = <<>> THEN <<>>
    ELSE IF MatchAt(s, old, 1)
         THEN Remove(SubSeq(s, Len(old) + 1, Len(s)), old)
         ELSE <<s[1]>> \o Remove(SubSeq(s, 2, Len(s)), old)

\* the elements of seq, each at its first occurrence
RECURSIVE Unique(_)
Unique(seq) ==
    IF seq = <<>> THEN <<>>
    ELSE LET front == Unique(SubSeq(seq, 1, Len(seq) - 1))
             last == seq[Len(seq)]
         IN  IF \E k \in 1..Len(front) : front[k] = last THEN front
             ELSE Append(front, last)

RECURSIVE Concat(_)
Concat(seqs) == IF seqs = <<>> THEN <<>> ELSE Head(seqs) \o Concat(Tail(seqs))

WhiteSpace == {" ", "\t", "\n", "\r", "\f"}

\* first position at or after p that is not white space, or Len(s) + 1
RECURSIVE SkipSpace(_, _)
SkipSpace(s, p) ==
    IF p > Len(s) \/ s[p] \notin WhiteSpace THEN p
    ELSE SkipSpace(s, p + 1)

\* re.split(r'\s+', line, maxsplit=1)
ReSplit1(line) ==
    LET p == FindChar(line, WhiteSpace, 1)
    IN  IF p = 0 THEN <<line>>
        ELSE <<SubSeq(line, 1, p - 1),
               SubSeq(line, SkipSpace(line, p), Len(line))>>

(***************************************************************************)
(* Text literals of the program and of the stubbed answers.                *)
(***************************************************************************)
HmdbIdText == <<"H","M","D","B","0","0","0","0","1","2","2">>

LipidsText == <<"L","i","p","i","d","s">>

FlavonoidText == <<
    "F","l","a","v","o","n","o","i","d"," ","g","l","y","c","o","s","i",
    "d","e">>

AlkaloidLipidText == <<"A","l","k","a","l","o","i","d"," ","l","i","p","i","d","s">>

ClassText == <<"F","a","t","t","y"," ","A","c","y","l","s">>

UnknownText == <<"U","n","k","n","o","w","n">>

PathwayNameA == <<"G","l","y","c","o","l","y","s","i","s">>

PathwayNameB == <<"T","C","A">>

FindText == <<
    "c","p","d",":","C","1","\t","G","l","c","\n","c","p","d",":","C","2",
    "\t","G","a","l","\n">>

FindTextBlank == <<"\n","c","p","d",":","C","1"," ","G","l","c">>

FindNoSpace == <<"C","1">>

FindNoColon == <<"c","p","d"," ","\t","G","l","c">>

EntryPrimary == <<
    "E","N","T","R","Y"," ","C","1","\n","N","A","M","E"," ","G","l","c",
    "\n">>

EntrySecondary == <<
    "E","N","T","R","Y"," ","C","1","\n","B","R","I","T","E"," ","S","e",
    "c","o","n","d","a","r","y"," ","m","e","t","a","b","o","l","i","t",
    "e","s">>

LinkTwo == <<
    "c","p","d",":","C","1","\t","p","a","t","h",":","m","a","p","1","\n",
    "c","p","d",":","C","1","\t","p","a","t","h",":","m","a","p","2","\n">>

LinkRepeated == <<
    "c","p","d",":","C","1","\t","p","a","t","h",":","m","a","p","1","\n",
    "c","p","d",":","C","1","\t","p","a","t","h",":","m","a","p","2","\n",
    "c","p","d",":","C","1","\t","p","a","t","h",":","m","a","p","1","\n">>

LinkNoTab == <<"N","o","t"," ","F","o","u","n","d">>

SecondaryMarker == <<
    "S","e","c","o","n","d","a","r","y"," ","m","e","t","a","b","o","l",
    "i","t","e","s">>

PathPrefix == <<"p","a","t","h",":">>

LipidWord == <<"l","i","p","i","d">>

OrganicAcidWord == <<"o","r","g","a","n","i","c"," ","a","c","i","d">>

NucleosideWord == <<"n","u","c","l","e","o","s","i","d","e">>

FlavonoidWord == <<"f","l","a","v","o","n","o","i","d">>

AlkaloidWord == <<"a","l","k","a","l","o","i","d">>

TerpeneWord == <<"t","e","r","p","e","n","e">>

Map1 == <<"m","a","p","1">>

Map2 == <<"m","a","p","2">>

(***************************************************************************)
(* HTTP exchanges: requests.get either raises or answers.                  *)
(***************************************************************************)
Raises(msg) == [raised |-> TRUE, msg |-> msg]

Answer(status_code, body) ==
    [raised |-> FALSE, status_code |-> status_code, body |-> body]

\* a body that response.json() or xmltodict.parse() cannot parse
Malformed == [t |-> "malformed"]

TimeoutMsg == "Read timed out"

HttpErrorMsg == "HTTP Error"

ParseErrorMsg == "syntax error"

AttributeErrorMsg == "'NoneType' object has no attribute 'get'"

TypeErrorMsg == "'NoneType' object is not iterable"

IndexErrorMsg == "list index out of range"

\* the status fields
Found == <<"Found">>

IdNotFound == <<"ID not found">>

\* f'Error: {str(e)}'
ErrorStatus(msg) == <<"Error: ", msg>>

IsError(status) == Len(status) = 2 /\ status[1] = "Error: "

(***************************************************************************)
(* search_hmdb_id: the identifier of the first match, or None.  Every      *)
(* exception is swallowed.                                                 *)
(***************************************************************************)
search_hmdb_id(response) ==
    IF response.raised THEN None
    ELSE IF response.status_code # 200 THEN None
    ELSE LET data == response.body
         IN  IF data.t # "dict" THEN None
             ELSE IF "metabolites" \notin DOMAIN data.d THEN None
             ELSE LET found == data.d["metabolites"]
                  IN  IF found.t # "list" \/ found.l = <<>> THEN None
                      ELSE IF found.l[1].t # "dict" THEN None
                      ELSE IF "hmdb_id" \notin DOMAIN found.l[1].d THEN None
                      ELSE found.l[1].d["hmdb_id"]

(***************************************************************************)
(* query_hmdb, the body of the try block after the identifier is known:    *)
(* the detail request, the parse and the record.                           *)
(***************************************************************************)
\* response.raise_for_status()
HttpError(response) == response.status_code >= 400 /\ response.status_code < 600

\* [p.get('name', '') for p in pathways if isinstance(p, dict)]
PathwayNames(pathways) ==
    LET dicts == SelectSeq(pathways, LAMBDA p : p.t = "dict")
    IN  [k \in 1..Len(dicts) |-> Get(dicts[k].d, "name", Str(<<>>))]

HmdbFound(hmdb_id, classification, pathways) ==
    [hmdb_id       |-> hmdb_id,
     super_class   |-> Get(classification, "super_class", Str(UnknownText)),
     class         |-> Get(classification, "class", Str(UnknownText)),
     sub_class     |-> Get(classification, "sub_class", Str(UnknownText)),
     hmdb_pathways |-> PathwayNames(pathways),
     hmdb_status   |-> Found]

HmdbError(msg) == [hmdb_status |-> ErrorStatus(msg)]

HmdbDetail(hmdb_id, response) ==
    IF response.raised THEN HmdbError(response.msg)
    ELSE IF HttpError(response) THEN HmdbError(HttpErrorMsg)
    ELSE IF response.body.t # "dict" THEN HmdbError(ParseErrorMsg)
    ELSE
    LET data == response.body.d
        info == Get(data, "metabolite", Dict(EmptyDict))
    IN  IF info.t # "dict" THEN HmdbError(AttributeErrorMsg)
        ELSE
        LET classification == Get(info.d, "classification", Dict(EmptyDict))
            container == Get(info.d, "pathways", Dict(EmptyDict))
        IN  IF container.t # "dict" THEN HmdbError(AttributeErrorMsg)
            ELSE
            LET pathway == Get(container.d, "pathway", List(<<>>))
                pathways == IF pathway.t = "dict" THEN List(<<pathway>>)
                            ELSE pathway
            IN  IF classification.t # "dict" THEN HmdbError(AttributeErrorMsg)
                ELSE IF pathways.t = "None" THEN HmdbError(TypeErrorMsg)
                ELSE HmdbFound(hmdb_id, classification.d,
                               IF pathways.t = "list" THEN pathways.l ELSE <<>>)

(***************************************************************************)
(* get_kegg_id: the identifier of the first non-empty line of the find     *)
(* answer, or None.  Every exception is swallowed.                         *)
(***************************************************************************)
\* the first non-empty line of lines, or <<>> when there is none
RECURSIVE FirstLine(_)
FirstLine(lines) ==
    IF lines = <<>> THEN <<>>
    ELSE IF Head(lines) # <<>> THEN Head(lines)
    ELSE FirstLine(Tail(lines))

get_kegg_id(response) ==
    IF response.raised THEN None
    ELSE IF ~(response.status_code = 200 /\ response.body # <<>>) THEN None
    ELSE LET line == FirstLine(Split(response.body, "\n"))
         IN  IF line = <<>> THEN None
             ELSE LET fields == ReSplit1(line)
                  IN  IF Len(fields) # 2 THEN None
                      ELSE LET parts == Split(fields[1], ":")
                           IN  IF Len(parts) < 2 THEN None
                               ELSE Str(parts[2])

(***************************************************************************)
(* query_kegg, the body of the try block after the identifier is known:    *)
(* the detail request, the pathway-link request and the record.            *)
(***************************************************************************)
NonEmpty(lines) == SelectSeq(lines, LAMBDA line : line # <<>>)

\* every non-empty line of the link answer has a second tab-separated field
LinkParses(path_data) ==
    \A k \in 1..Len(Split(path_data, "\n")) :
        LET line == Split(path_data, "\n")[k]
        IN  line # <<>> => Len(Split(line, "\t")) >= 2

\* the codes are collected into a set: a repeated code is kept once
KeggPathwaysSet(path_data) ==
    LET lines == NonEmpty(Split(path_data, "\n"))
    IN  Unique([k \in 1..Len(lines) |->
                   Remove(Split(lines[k], "\t")[2], PathPrefix)])

\* [line.split("\t")[1].replace("path:", "") for line in ... if line]
KeggPathways(path_data) ==
    LET lines == NonEmpty(Split(path_data, "\n"))
    IN  [k \in 1..Len(lines) |-> Remove(Split(lines[k], "\t")[2], PathPrefix)]

\* a payload without the phrase is left undecided
MetabTypeUndecided(info_data) ==
    IF Contains(info_data, SecondaryMarker) THEN "secondary" ELSE "unknown"

\* "secondary" if "Secondary metabolites" in info_data else "primary"
MetabType(info_data) ==
    IF Contains(info_data, SecondaryMarker) THEN "secondary" ELSE "primary"

\* info_data.split("\n")[1] if len(info_data.split("\n")) > 1 else ""
Description(info_data) ==
    IF Len(Split(info_data, "\n")) > 1 THEN Split(info_data, "\n")[2] ELSE <<>>

KeggFound(kegg_id, info_data, path_data) ==
    [kegg_id       |-> kegg_id,
     type          |-> MetabType(info_data),
     kegg_pathways |-> KeggPathways(path_data),
     description   |-> Description(info_data),
     kegg_status   |-> Found]

KeggError(msg) == [kegg_status |-> ErrorStatus(msg)]

\* each request has a try block of its own: a failing link request keeps
\* what the detail request gave
KeggDetailPartial(kegg_id, info, link) ==
    IF info.raised THEN KeggError(info.msg)
    ELSE IF link.raised
         THEN [kegg_id     |-> kegg_id,
               type        |-> MetabType(info.body),
               description |-> Description(info.body),
               kegg_status |-> ErrorStatus(link.msg)]
    ELSE IF ~LinkParses(link.body) THEN KeggError(IndexErrorMsg)
    ELSE KeggFound(kegg_id, info.body, link.body)

KeggDetail(kegg_id, info, link) ==
    IF info.raised THEN KeggError(info.msg)
    ELSE IF link.raised THEN KeggError(link.msg)
    ELSE IF ~LinkParses(link.body) THEN KeggError(IndexErrorMsg)
    ELSE KeggFound(kegg_id, info.body, link.body)

(***************************************************************************)
(* classify_metabolites, the final type of one merged record.              *)
(***************************************************************************)
PrimaryWords == <<LipidWord, OrganicAcidWord, NucleosideWord>>

SecondaryWords == <<FlavonoidWord, AlkaloidWord, TerpeneWord>>

\* classified[metab].get('super_class', '').lower() raises AttributeError
\* unless the value is a str
LowerRaises(record) ==
    /\ "type" \notin DOMAIN record
    /\ Get(record, "super_class", Str(<<>>)).t # "str"

Heuristic(super_class) ==
    IF AnyIn(PrimaryWords, super_class) THEN "primary"
    ELSE IF AnyIn(SecondaryWords, super_class) THEN "secondary"
    ELSE "unknown"

\* the keyword heuristic is tried before the KEGG type
FinalTypeHeuristicFirst(record) ==
    LET super_class == Get(record, "super_class", Str(<<>>))
        word == IF super_class.t = "str" THEN Heuristic(Lower(super_class.s))
                ELSE "unknown"
    IN  IF word # "unknown" THEN word
        ELSE IF "type" \in DOMAIN record THEN record["type"]
        ELSE "unknown"

FinalType(record) ==
    IF "type" \in DOMAIN record THEN record["type"]
    ELSE Heuristic(Lower(Get(record, "super_class", Str(<<>>)).s))

(***************************************************************************)
(* pandas.DataFrame.from_dict(classified, orient='index').                 *)
(*                                                                         *)
(* from_dict turns the dict of rows into a dict of columns, the columns    *)
(* in the order they first appear and each column holding the rows that    *)
(* have it, in the order of classified.  The DataFrame constructor then    *)
(* builds the row index as the union of the columns' row lists, taken      *)
(* column by column without sorting.                                       *)
(***************************************************************************)
\* the keys of a merged record, in the order the record received them
FieldOrder == <<"hmdb_id", "super_class", "class", "sub_class",
                "hmdb_pathways", "hmdb_status", "kegg_id", "type",
                "kegg_pathways", "description", "kegg_status", "final_type">>

Keys(record) == SelectSeq(FieldOrder, LAMBDA k : k \in DOMAIN record)

Columns(rows, keys) ==
    Unique(Concat([k \in 1..Len(keys) |-> Keys(rows[keys[k]])]))

RowsOf(rows, keys, col) == SelectSeq(keys, LAMBDA n : col \in DOMAIN rows[n])

RowIndex(rows, keys) ==
    LET columns == Columns(rows, keys)
    IN  Unique(Concat([k \in 1..Len(columns) |-> RowsOf(rows, keys, columns[k])]))

from_dict(rows, keys) ==
    [index   |-> RowIndex(rows, keys),
     columns |-> Columns(rows, keys),
     data    |-> rows]

NoTable == [index |-> <<>>, columns |-> <<>>, data |-> EmptyDict]

(***************************************************************************)
(* The answers of the stubbed servers.  A run is made against one of two   *)
(* stubs.  The "full" stub can give every kind of answer: a timeout, a     *)
(* non-2xx status, a body that does not parse, documents with missing or   *)
(* null fields, and well-formed ones.  The "plain" stub always answers     *)
(* 200 with a well-formed body and either knows a compound or does not;    *)
(* it is run with more names and longer lists.                             *)
(***************************************************************************)
Metabolite(d) == Dict([metabolite |-> Dict(d)])

Pathway(name) == Dict([name |-> Str(name)])

DocLipid ==
    Metabolite([classification |-> Dict([super_class |-> Str(LipidsText),
                                         class |-> Str(ClassText)]),
                pathways |-> Dict([pathway |-> Pathway(PathwayNameA)])])

DocFlavonoid ==
    Metabolite([classification |-> Dict([super_class |-> Str(FlavonoidText)]),
                pathways |-> Dict([pathway |->
                    List(<<Pathway(PathwayNameA), Str(PathwayNameB),
                           Pathway(PathwayNameB)>>)])])

DocAlkaloidLipid ==
    Metabolite([classification |->
                    Dict([super_class |-> Str(AlkaloidLipidText)])])

DocBare == Metabolite(EmptyDict)

DocNullClassification == Metabolite([classification |-> None])

DocNullSuperClass ==
    Metabolite([classification |-> Dict([super_class |-> None])])

DocNullPathways == Metabolite([pathways |-> None])

Matches(ids) ==
    Dict([metabolites |-> List([k \in 1..Len(ids) |-> Dict([hmdb_id |-> ids[k]])])])

HmdbSearchAnswers ==
    IF stub = "plain"
    THEN {Answer(200, Matches(<<>>)), Answer(200, Matches(<<Str(HmdbIdText)>>))}
    ELSE {Raises(TimeoutMsg),
          Answer(404, Malformed),
          Answer(200, Malformed),
          Answer(200, Dict(EmptyDict)),
          Answer(200, Matches(<<>>)),
          Answer(200, Matches(<<Str(HmdbIdText), Str(ClassText)>>))}

HmdbDetailAnswers ==
    IF stub = "plain"
    THEN {Answer(200, DocLipid)}
    ELSE {Raises(TimeoutMsg),
          Answer(500, Malformed),
          Answer(200, Malformed)}
         \cup {Answer(200, doc) : doc \in
                 {DocLipid, DocFlavonoid, DocAlkaloidLipid, DocBare,
                  DocNullClassification, DocNullSuperClass, DocNullPathways}}

KeggFindAnswers ==
    IF stub = "plain"
    THEN {Answer(200, <<>>), Answer(200, FindText)}
    ELSE {Raises(TimeoutMsg),
          Answer(404, FindText),
          Answer(200, <<>>),
          Answer(200, FindNoSpace),
          Answer(200, FindNoColon),
          Answer(200, FindText),
          Answer(200, FindTextBlank)}

KeggInfoAnswers ==
    IF stub = "plain"
    THEN {Answer(200, EntryPrimary)}
    ELSE {Raises(TimeoutMsg),
          Answer(404, <<>>),
          Answer(200, EntryPrimary),
          Answer(200, EntrySecondary)}

KeggLinkAnswers ==
    IF stub = "plain"
    THEN {Answer(200, LinkTwo)}
    ELSE {Raises(TimeoutMsg),
          Answer(404, <<>>),
          Answer(404, LinkNoTab),
          Answer(200, LinkRepeated)}

(***************************************************************************)
(* The state machine of classify_metabolites.                              *)
(***************************************************************************)
HmdbDelay == 2

KeggDelay == 1

RECURSIVE Lists(_, _)
Lists(S, n) ==
    IF n = 0 THEN {<<>>}
    ELSE Lists(S, n - 1) \cup
         {Append(l, x) : l \in {m \in Lists(S, n - 1) : Len(m) = n - 1}, x \in S}

Init ==
    /\ stub \in {"full", "plain"}
    /\ metabolites \in IF stub = "plain" THEN Lists(PlainNames, MaxPlainLen)
                       ELSE Lists(Names, MaxLen)
    /\ pc = "query_hmdb"
    /\ i = 1
    /\ hmdb_data = EmptyDict
    /\ kegg_data = EmptyDict
    /\ classified = EmptyDict
    /\ order = <<>>
    /\ table = NoTable
    /\ clock = 0
    /\ net = EmptyDict

\* one iteration of the loop of query_hmdb
HmdbItem ==
    /\ pc = "query_hmdb"
    /\ i <= Len(metabolites)
    /\ \E search \in HmdbSearchAnswers :
         LET metab == metabolites[i]
             hmdb_id == search_hmdb_id(search)
         IN  IF ~Truthy(hmdb_id)
             THEN /\ hmdb_data' = Update(hmdb_data,
                                         metab :> [hmdb_status |-> IdNotFound])
                  /\ clock' = clock
                  /\ net' = [search |-> search]
             ELSE \E detail \in HmdbDetailAnswers :
                  /\ hmdb_data' = Update(hmdb_data,
                                         metab :> HmdbDetail(hmdb_id, detail))
                  /\ clock' = clock + HmdbDelay
                  /\ net' = [search |-> search, detail |-> detail]
    /\ i' = i + 1
    /\ UNCHANGED <<stub, metabolites, pc, kegg_data, classified, order, table>>

\* query_hmdb returns and query_kegg starts
HmdbReturn ==
    /\ pc = "query_hmdb"
    /\ i > Len(metabolites)
    /\ pc' = "query_kegg"
    /\ i' = 1
    /\ UNCHANGED <<stub, metabolites, hmdb_data, kegg_data, classified, order,
                   table, clock, net>>

\* one iteration of the loop of query_kegg
KeggItem ==
    /\ pc = "query_kegg"
    /\ i <= Len(metabolites)
    /\ \E find \in KeggFindAnswers :
         LET metab == metabolites[i]
             kegg_id == get_kegg_id(find)
         IN  IF ~Truthy(kegg_id)
             THEN /\ kegg_data' = Update(kegg_data,
                                         metab :> [kegg_status |-> IdNotFound])
                  /\ clock' = clock
                  /\ net' = [find |-> find]
             ELSE \E info \in KeggInfoAnswers :
                  IF info.raised
                  THEN \* the link request is never issued
                       /\ kegg_data' = Update(kegg_data,
                                          metab :> KeggDetail(kegg_id, info, info))
                       /\ clock' = clock + KeggDelay
                       /\ net' = [find |-> find, info |-> info]
                  ELSE \E link \in KeggLinkAnswers :
                       /\ kegg_data' = Update(kegg_data,
                                          metab :> KeggDetail(kegg_id, info, link))
                       /\ clock' = clock + KeggDelay
                       /\ net' = [find |-> find, info |-> info, link |-> link]
    /\ i' = i + 1
    /\ UNCHANGED <<stub, metabolites, pc, hmdb_data, classified, order, table>>

\* query_kegg returns and the merge loop starts
KeggReturn ==
    /\ pc = "query_kegg"
    /\ i > Len(metabolites)
    /\ pc' = "merge"
    /\ i' = 1
    /\ UNCHANGED <<stub, metabolites, hmdb_data, kegg_data, classified, order,
                   table, clock, net>>

\* the KEGG record replaces the merged record instead of updating it
MergedKeggOnly(metab) ==
    IF metab \in DOMAIN kegg_data THEN kegg_data[metab]
    ELSE Update(Get(classified, metab, EmptyDict),
                Get(hmdb_data, metab, EmptyDict))

\* the record of classified[metab] after the two update() calls
Merged(metab) ==
    Update(Update(Get(classified, metab, EmptyDict),
                  Get(hmdb_data, metab, EmptyDict)),
           Get(kegg_data, metab, EmptyDict))

\* one iteration of the loop of classify_metabolites
Merge ==
    /\ pc = "merge"
    /\ i <= Len(metabolites)
    /\ LET metab == metabolites[i]
           record == Merged(metab)
       IN  /\ order' = IF metab \in DOMAIN classified THEN order
                       ELSE Append(order, metab)
           /\ IF LowerRaises(record)
              THEN /\ classified' = Update(classified, metab :> record)
                   /\ pc' = "raised"
                   /\ i' = i
              ELSE /\ classified' = Update(classified, metab :>
                         Update(record, [final_type |-> FinalType(record)]))
                   /\ pc' = pc
                   /\ i' = i + 1
    /\ UNCHANGED <<stub, metabolites, hmdb_data, kegg_data, table, clock, net>>

\* classify_metabolites returns the DataFrame
Return ==
    /\ pc = "merge"
    /\ i > Len(metabolites)
    /\ table' = from_dict(classified, order)
    /\ pc' = "done"
    /\ UNCHANGED <<stub, metabolites, i, hmdb_data, kegg_data, classified, order,
                   clock, net>>

Next ==
    \/ HmdbItem
    \/ HmdbReturn
    \/ KeggItem
    \/ KeggReturn
    \/ Merge
    \/ Return

Spec == Init /\ [][Next]_vars

(***************************************************************************)
(* Properties.                                                             *)
(***************************************************************************)
\* the name the latest loop iteration worked on
Latest == metabolites[i - 1]

\* a request that raised or answered outside 2xx
Failed(response) ==
    IF response.raised THEN TRUE
    ELSE response.status_code < 200 \/ response.status_code >= 300

ClassificationFields == {"super_class", "class", "sub_class", "type"}

HmdbFailed(record) == record["hmdb_status"] # Found

KeggFailed(record) == record["kegg_status"] # Found

\* C1: whatever the servers answer, classify_metabolites never raises: no
\* failure of a lookup, parse, merge or classification step escapes it.
C1_NeverRaises == pc # "raised"

\* C2: the returned table has exactly one row per unique input name, in the
\* order of each name's first occurrence in the input.
C2_RowsInFirstOccurrenceOrder ==
    pc = "done" => table.index = Unique(metabolites)

\* a find answer from which get_kegg_id can take no identifier: it raised,
\* answered outside 200, or its body is empty or has no "<db>:<id> <name>" line
FindFailed(response) ==
    IF response.raised THEN TRUE
    ELSE \/ response.status_code # 200
         \/ response.body \in {<<>>, FindNoSpace, FindNoColon}

\* the latest KEGG lookup failed altogether: the find request gave no
\* identifier, or the detail request raised or answered outside 2xx and the
\* pathway-link request, when it was issued, did so too
KeggLookupFailed ==
    /\ "find" \in DOMAIN net
    /\ \/ FindFailed(net["find"])
       \/ /\ "info" \in DOMAIN net
          /\ Failed(net["info"])
          /\ "link" \in DOMAIN net => Failed(net["link"])

\* C3: every record of the returned table has a final_type that is primary,
\* secondary or unknown, whatever the two sources answered, and a metabolite
\* whose two sources both failed has final_type unknown and no classification
\* field.  The last name of the list is the one whose KEGG exchanges net
\* still holds, so its KEGG failure is read from the exchanges themselves.
C3_FinalTypeAlwaysPresent ==
    pc = "done" =>
        /\ \A k \in 1..Len(table.index) :
               LET record == table.data[table.index[k]]
               IN  /\ "final_type" \in DOMAIN record
                   /\ record["final_type"] \in {"primary", "secondary", "unknown"}
                   /\ (HmdbFailed(record) /\ KeggFailed(record)) =>
                          /\ record["final_type"] = "unknown"
                          /\ DOMAIN record \cap ClassificationFields = {}
        /\ (metabolites # <<>> /\ KeggLookupFailed
                /\ HmdbFailed(table.data[Latest])) =>
               /\ table.data[Latest]["final_type"] = "unknown"
               /\ DOMAIN table.data[Latest] \cap ClassificationFields = {}

\* the lower-cased super_class of a merged record, '' when it has none
SuperClassOf(record) ==
    IF "super_class" \in DOMAIN record THEN Lower(record["super_class"].s)
    ELSE <<>>

HasPrimaryWord(s) ==
    Contains(s, LipidWord) \/ Contains(s, OrganicAcidWord)
        \/ Contains(s, NucleosideWord)

HasSecondaryWord(s) ==
    Contains(s, FlavonoidWord) \/ Contains(s, AlkaloidWord)
        \/ Contains(s, TerpeneWord)

\* C4: the final_type of every merged record follows the four-step rule:
\* the KEGG type when there is one; otherwise primary when the lower-cased
\* super_class holds a primary keyword; otherwise secondary when it holds a
\* secondary keyword; otherwise unknown.  A super_class with a keyword of
\* both lists gives primary, and "Flavonoid glycoside" gives secondary.
C4_FourStepRule ==
    \A n \in DOMAIN classified :
        LET record == classified[n]
        IN  "final_type" \in DOMAIN record =>
            /\ record["final_type"] =
                   IF "type" \in DOMAIN record THEN record["type"]
                   ELSE IF HasPrimaryWord(SuperClassOf(record)) THEN "primary"
                   ELSE IF HasSecondaryWord(SuperClassOf(record)) THEN "secondary"
                   ELSE "unknown"
            /\ ("type" \notin DOMAIN record /\ "super_class" \in DOMAIN record) =>
                   /\ record["super_class"] = Str(FlavonoidText)
                          => record["final_type"] = "secondary"
                   /\ record["super_class"] = Str(AlkaloidLipidText)
                          => record["final_type"] = "primary"
                   /\ record["super_class"] = Str(LipidsText)
                          => record["final_type"] = "primary"
                   /\ record["super_class"] = Str(UnknownText)
                          => record["final_type"] = "unknown"

C4_Witness ==
    \E n \in DOMAIN classified :
        /\ {"final_type", "type", "super_class"} \subseteq DOMAIN classified[n]
        /\ classified[n]["super_class"] = Str(LipidsText)
        /\ classified[n]["type"] = "secondary"
        /\ classified[n]["final_type"] = "secondary"

\* C5: a failure in one source does not block the other: a failed KEGG
\* search gives kegg_status "ID not found", and the merged record of a name
\* whose KEGG status is "ID not found" carries every HMDB field the HMDB
\* lookup of that name produced; the merged record of a name whose HMDB
\* lookup did not end Found carries every KEGG field the KEGG lookup produced.
C5_SourcesIndependent ==
    /\ (pc = "query_kegg" /\ "find" \in DOMAIN net /\ FindFailed(net["find"])) =>
           kegg_data[Latest] = [kegg_status |-> IdNotFound]
    /\ \A n \in DOMAIN classified :
           /\ kegg_data[n]["kegg_status"] = IdNotFound =>
                  /\ classified[n]["kegg_status"] = IdNotFound
                  /\ \A f \in DOMAIN hmdb_data[n] :
                         /\ f \in DOMAIN classified[n]
                         /\ classified[n][f] = hmdb_data[n][f]
           /\ hmdb_data[n]["hmdb_status"] # Found =>
                  /\ classified[n]["hmdb_status"] = hmdb_data[n]["hmdb_status"]
                  /\ \A f \in DOMAIN kegg_data[n] :
                         /\ f \in DOMAIN classified[n]
                         /\ classified[n][f] = kegg_data[n][f]

C5_Witness ==
    /\ pc = "done"
    /\ \E n \in DOMAIN classified :
           /\ kegg_data[n]["kegg_status"] = IdNotFound
           /\ hmdb_data[n]["hmdb_status"] = Found
           /\ classified[n]["super_class"] = Str(FlavonoidText)
           /\ classified[n]["kegg_status"] = IdNotFound

\* C6: the detail request and the pathway-link request of one metabolite
\* fail as one unit: when either raises, the KEGG record of that lookup is
\* the Error status with the exception's message and nothing else.
C6_SingleFailureUnit ==
    (pc = "query_kegg" /\ "info" \in DOMAIN net) =>
        /\ net["info"].raised =>
               kegg_data[Latest] = [kegg_status |-> ErrorStatus(net["info"].msg)]
        /\ ("link" \in DOMAIN net /\ net["link"].raised) =>
               kegg_data[Latest] = [kegg_status |-> ErrorStatus(net["link"].msg)]

C6_Witness ==
    /\ pc = "query_kegg"
    /\ DOMAIN net = {"find", "info", "link"}
    /\ net["info"] = Answer(200, EntrySecondary)
    /\ net["link"].raised
    /\ DOMAIN kegg_data[Latest] = {"kegg_status"}

\* C7: a detail or pathway fetch of a resolved identifier that raises or
\* answers with a non-2xx status is recorded as an Error status for that
\* source, never as Found.
C7_FailedFetchIsError ==
    /\ (pc = "query_hmdb" /\ "detail" \in DOMAIN net /\ Failed(net["detail"])) =>
           IsError(hmdb_data[Latest]["hmdb_status"])
    /\ (pc = "query_kegg" /\ "info" \in DOMAIN net /\ Failed(net["info"])) =>
           IsError(kegg_data[Latest]["kegg_status"])
    /\ (pc = "query_kegg" /\ "link" \in DOMAIN net /\ Failed(net["link"])) =>
           IsError(kegg_data[Latest]["kegg_status"])

NoRepeat(seq) == \A a, b \in 1..Len(seq) : seq[a] = seq[b] => a = b

\* C8: in every KEGG record with status Found, kegg_pathways holds each
\* pathway code once, with the "path:" prefix removed.
C8_PathwaysUnique ==
    \A n \in DOMAIN kegg_data :
        kegg_data[n]["kegg_status"] = Found =>
            /\ NoRepeat(kegg_data[n]["kegg_pathways"])
            /\ \A k \in 1..Len(kegg_data[n]["kegg_pathways"]) :
                   ~MatchAt(kegg_data[n]["kegg_pathways"][k], PathPrefix, 1)

\* C8, amended: in a KEGG record with status Found, kegg_pathways is a
\* list with one entry per non-empty line of the pathway-link payload, in
\* payload order: the line's second tab-separated field with "path:"
\* removed.  A repeated line gives a repeated code.
C8_PathwaysPerLine ==
    (pc = "query_kegg" /\ "link" \in DOMAIN net
         /\ kegg_data[Latest]["kegg_status"] = Found) =>
        LET lines == NonEmpty(Split(net["link"].body, "\n"))
            codes == kegg_data[Latest]["kegg_pathways"]
        IN  /\ Len(codes) = Len(lines)
            /\ \A k \in 1..Len(lines) :
                   codes[k] = Remove(Split(lines[k], "\t")[2], PathPrefix)
            /\ net["link"].body = LinkRepeated => codes = <<Map1, Map2, Map1>>
            /\ net["link"].body = LinkTwo => codes = <<Map1, Map2>>

C8_Witness ==
    /\ pc = "query_kegg"
    /\ "link" \in DOMAIN net
    /\ net["link"] = Answer(200, LinkRepeated)
    /\ kegg_data[Latest]["kegg_status"] = Found
    /\ kegg_data[Latest]["kegg_pathways"] = <<Map1, Map2, Map1>>

\* C9: between the requests of one list item and those of the next, the
\* HMDB loop always sleeps 1 second and the KEGG loop always sleeps 0.5
\* second, whatever the outcome of the earlier item.
C9_DelayBetweenItems ==
    [][/\ (pc = "query_hmdb" /\ i < Len(metabolites) /\ i' = i + 1) =>
              clock' = clock + HmdbDelay
       /\ (pc = "query_kegg" /\ i < Len(metabolites) /\ i' = i + 1) =>
              clock' = clock + KeggDelay]_vars

\* C10: a merged record has a type field exactly when its kegg_status is
\* Found, and then final_type is that type and is primary or secondary; the
\* keyword heuristic decides only records whose KEGG status is not Found.
C10_TypeIffKeggFound ==
    \A n \in DOMAIN classified :
        LET record == classified[n]
        IN  "final_type" \in DOMAIN record =>
            /\ "type" \in DOMAIN record <=> record["kegg_status"] = Found
            /\ "type" \in DOMAIN record =>
                   /\ record["final_type"] = record["type"]
                   /\ record["final_type"] \in {"primary", "secondary"}

C10_Witness ==
    \E n, m \in DOMAIN classified :
        /\ {"final_type", "type"} \subseteq DOMAIN classified[n]
        /\ classified[n]["kegg_status"] = Found
        /\ classified[n]["final_type"] = "primary"
        /\ "final_type" \in DOMAIN classified[m]
        /\ classified[m]["kegg_status"] = IdNotFound
        /\ classified[m]["final_type"] = "primary"

====
